---- MODULE Spec2Model ----
(***************************************************************************)
(* Model of the DSA study app: the flash-card quiz of                      *)
(* src/pages/FlashCardsPage.tsx (React state, the handlers' closures and   *)
(* the results view) and the block splitter of                             *)
(* src/components/TheorySection.tsx.                                       *)
(*                                                                         *)
(* JavaScript values that may be absent (null, undefined, NaN) are         *)
(* modelled as sequences of length 0 or 1: <<>> is the absent value and    *)
(* <<v>> the present value v.                                              *)
(***************************************************************************)
EXTENDS Integers, Sequences, FiniteSets, TLC

\* ------------------------------------------------------------------ bounds
\* Number of cards in the catalog (the real catalog has 100).
NumCards == 3
\* Number of key events that may be delivered to the listener of one render
\* before React re-renders (SpecStale only).
MaxBurst == 2
\* Number of lines of a topic text (TheorySpec only).
MaxLines == 5

\* ------------------------------------------------------------ JS values
None == <<>>
Some(v) == <<v>>

\* --------------------------------------------------------------- catalog
Category == {"big-o", "data-structures", "algorithms", "techniques"}

\* The category filter buttons, in display order.
categories == <<"all", "big-o", "data-structures", "algorithms", "techniques">>

CategoryOrder == <<"data-structures", "algorithms", "techniques", "big-o">>

\* The static catalog. Cards 1 and 2 are big-o cards, the following ones cycle
\* through the other categories. Card 2 has three choices, the others four.
\* choices is the length of the card's choice list, answer the zero-based
\* index of the correct one.
flashCards ==
    [id \in 1..NumCards |->
        [id       |-> id,
         category |-> IF id <= 2 THEN "big-o" ELSE CategoryOrder[((id - 3) % 4) + 1],
         choices  |-> IF id = 2 THEN 3 ELSE 4,
         answer   |-> IF id % 2 = 1 THEN 3 ELSE 0]]

\* --------------------------------------------------------------- state
VARIABLES
    filter,          \* useState filter
    cards,           \* useState cards: the shuffled deck
    index,           \* useState index: position in the deck
    selected,        \* useState selected: None (null) or Some(choice index)
    score,           \* useState score
    answered,        \* useState answered
    categoryScores,  \* useState categoryScores: category -> {correct, total}
    view,            \* the values of the last render, captured by the handlers
    mounted,         \* the mount effect has run
    pending,         \* events handled since the last render
    lastEvent,       \* the last event delivered to the page
    text,            \* the topic text handed to the block splitter
    blocks,          \* None, or Some(the raw blocks returned by the splitter)
    pc,              \* position of the theory parser
    parsed,          \* None, or Some(the Blocks returned by parseTheoryBlocks)
    tables,          \* None, or Some(what TheoryTable makes of each table block)
    html,            \* the successive results of formatInline
    shuffleIn,       \* the elements of the array handed to shuffle
    shuffleArr,      \* arr: the caller's array as it is now
    shuffleA,        \* a: None, or Some(the working array of shuffle)
    shuffleI,        \* i: the loop index of shuffle (0-based)
    shuffleJs,       \* the draws j made so far, in order
    shufflePc,       \* position of the shuffle call
    vizKind,         \* which visualization component the instance is
    vizPhase,        \* "absent", "mounted" or "unmounted"
    vizTimers,       \* the interval timers of the instance that are set
    vizState,        \* the useState values of the instance
    cbPhase,         \* CodeBlock: "absent", "mounted" or "unmounted"
    cbProps,         \* CodeBlock: the current code and lang props
    cbRequests,      \* CodeBlock: the codeToHtml calls made, with their flags
    codeHtml         \* CodeBlock: useState html

quizState == <<filter, cards, index, selected, score, answered, categoryScores>>
theoryVars == <<text, blocks, pc, parsed, tables, html>>
shuffleVars == <<shuffleIn, shuffleArr, shuffleA, shuffleI, shuffleJs, shufflePc>>
vizVars == <<vizKind, vizPhase, vizTimers, vizState>>
codeBlockVars == <<cbPhase, cbProps, cbRequests, codeHtml>>
auxVars == <<shuffleVars, vizVars, codeBlockVars>>
vars == <<filter, cards, index, selected, score, answered, categoryScores,
          view, mounted, pending, lastEvent, text, blocks, pc, parsed, tables, html,
          shuffleIn, shuffleArr, shuffleA, shuffleI, shuffleJs, shufflePc,
          vizKind, vizPhase, vizTimers, vizState,
          cbPhase, cbProps, cbRequests, codeHtml>>

\* No shuffle call, visualization or CodeBlock is under way.
ShuffleIdle ==
    /\ shuffleIn = <<>>
    /\ shuffleArr = <<>>
    /\ shuffleA = <<>>
    /\ shuffleI = 0
    /\ shuffleJs = <<>>
    /\ shufflePc = "idle"

VizAbsent ==
    /\ vizKind = "none"
    /\ vizPhase = "absent"
    /\ vizTimers = {}
    /\ vizState = <<>>

CodeBlockAbsent ==
    /\ cbPhase = "absent"
    /\ cbProps = 0
    /\ cbRequests = <<>>
    /\ codeHtml = <<>>

ZeroScores == [c \in Category |-> [correct |-> 0, total |-> 0]]

\* const card = cards[index]
CardAt(cs, idx) == IF idx < Len(cs) THEN Some(cs[idx + 1]) ELSE None
\* done without the test for a non-empty deck.
DoneAtAnyDeck(cs, idx) == idx >= Len(cs)

\* const done = index >= cards.length && cards.length > 0
DoneAt(cs, idx) == idx >= Len(cs) /\ Len(cs) > 0

card == CardAt(cards, index)
done == DoneAt(cards, index)

\* Capture with selected missing from the dependency lists: the handlers
\* keep the null of the first render.
CaptureStaleSelected(flt, cs, idx, sel) ==
    [filter |-> flt, selected |-> None, card |-> CardAt(cs, idx), done |-> DoneAt(cs, idx)]

\* The values a render hands to the callbacks and the key listener it
\* registers (the dependency lists of useCallback and useEffect).
Capture(flt, cs, idx, sel) ==
    [filter |-> flt, selected |-> sel, card |-> CardAt(cs, idx), done |-> DoneAt(cs, idx)]

\* ---------------------------------------------------------------- shuffle
\* Swap that only overwrites a[i].
SwapOverwrite(a, i, j) == [a EXCEPT ![i] = a[j]]

Swap(a, i, j) == [a EXCEPT ![i] = a[j], ![j] = a[i]]

\* The draws of one shuffle of n elements: for every position i from n down
\* to 2 (1-based) an index j in 1..i, i.e. floor(Math.random() * (i + 1)).
Draws(n) == {d \in [2..n -> 1..n] : \A i \in 2..n : d[i] <= i}

RECURSIVE ShuffleFrom(_, _, _)
ShuffleFrom(a, i, d) ==
    IF i <= 1 THEN a ELSE ShuffleFrom(Swap(a, i, d[i]), i - 1, d)

shuffle(arr, d) == ShuffleFrom(arr, Len(arr), d)

\* flashCards.filter((c) => c.category === source), or flashCards for 'all'
Pool(source) ==
    IF source = "all" THEN flashCards
    ELSE SelectSeq(flashCards, LAMBDA c : c.category = source)
\* reset without setAnswered(0).
resetKeepsAnswered(newFilter) ==
    LET source == IF newFilter # None THEN newFilter[1] ELSE view.filter
        pool   == Pool(source)
    IN  /\ \E d \in Draws(Len(pool)) : cards' = shuffle(pool, d)
        /\ index' = 0
        /\ selected' = None
        /\ score' = 0
        /\ answered' = answered
        /\ categoryScores' = ZeroScores

\* ---------------------------------------------------------------- handlers
\* reset(newFilter): newFilter is None when the argument is omitted.
reset(newFilter) ==
    LET source == IF newFilter # None THEN newFilter[1] ELSE view.filter
        pool   == Pool(source)
    IN  /\ \E d \in Draws(Len(pool)) : cards' = shuffle(pool, d)
        /\ index' = 0
        /\ selected' = None
        /\ score' = 0
        /\ answered' = 0
        /\ categoryScores' = ZeroScores

\* handleSelect without setAnswered.
handleSelectNoAnswered(choiceIndex) ==
    IF view.selected # None \/ view.card = None
    THEN UNCHANGED quizState
    ELSE LET c == view.card[1]
             isCorrect == choiceIndex = c.answer
         IN  /\ selected' = Some(choiceIndex)
             /\ answered' = answered
             /\ score' = IF isCorrect THEN score + 1 ELSE score
             /\ categoryScores' =
                    [categoryScores EXCEPT ![c.category] =
                        [correct |-> @.correct + (IF isCorrect THEN 1 ELSE 0),
                         total   |-> @.total + 1]]
             /\ UNCHANGED <<filter, cards, index>>

\* handleSelect that counts a card in its category only when it is right.
handleSelectTotalIfCorrect(choiceIndex) ==
    IF view.selected # None \/ view.card = None
    THEN UNCHANGED quizState
    ELSE LET c == view.card[1]
             isCorrect == choiceIndex = c.answer
         IN  /\ selected' = Some(choiceIndex)
             /\ answered' = answered + 1
             /\ score' = IF isCorrect THEN score + 1 ELSE score
             /\ categoryScores' =
                    [categoryScores EXCEPT ![c.category] =
                        [correct |-> @.correct + (IF isCorrect THEN 1 ELSE 0),
                         total   |-> @.total + (IF isCorrect THEN 1 ELSE 0)]]
             /\ UNCHANGED <<filter, cards, index>>
\* handleSelect with setAnswered((a) => a - 1).
handleSelectCountsDown(choiceIndex) ==
    IF view.selected # None \/ view.card = None
    THEN UNCHANGED quizState
    ELSE LET c == view.card[1]
             isCorrect == choiceIndex = c.answer
         IN  /\ selected' = Some(choiceIndex)
             /\ answered' = answered - 1
             /\ score' = IF isCorrect THEN score + 1 ELSE score
             /\ categoryScores' =
                    [categoryScores EXCEPT ![c.category] =
                        [correct |-> @.correct + (IF isCorrect THEN 1 ELSE 0),
                         total   |-> @.total + 1]]
             /\ UNCHANGED <<filter, cards, index>>

handleSelect(choiceIndex) ==
    IF view.selected # None \/ view.card = None
    THEN UNCHANGED quizState
    ELSE LET c == view.card[1]
             isCorrect == choiceIndex = c.answer
         IN  /\ selected' = Some(choiceIndex)
             /\ answered' = answered + 1
             /\ score' = IF isCorrect THEN score + 1 ELSE score
             /\ categoryScores' =
                    [categoryScores EXCEPT ![c.category] =
                        [correct |-> @.correct + (IF isCorrect THEN 1 ELSE 0),
                         total   |-> @.total + 1]]
             /\ UNCHANGED <<filter, cards, index>>

\* handleNext without setSelected(null).
handleNextKeepsSelection ==
    IF view.selected = None
    THEN UNCHANGED quizState
    ELSE /\ index' = index + 1
         /\ UNCHANGED <<filter, cards, selected, score, answered, categoryScores>>

\* handleNext that moves two cards ahead.
handleNextSkipsCard ==
    IF view.selected = None
    THEN UNCHANGED quizState
    ELSE /\ index' = index + 2
         /\ selected' = None
         /\ UNCHANGED <<filter, cards, score, answered, categoryScores>>

handleNext ==
    IF view.selected = None
    THEN UNCHANGED quizState
    ELSE /\ index' = index + 1
         /\ selected' = None
         /\ UNCHANGED <<filter, cards, score, answered, categoryScores>>

\* The keys the model presses.
Keys == {"0", "1", "4", "5", "Enter", "ArrowRight", "a"}
KeyEvents == [key : Keys, targetIsInput : BOOLEAN]

DigitValue == [k \in {"0", "1", "2", "3", "4", "5", "6", "7", "8", "9"} |->
                 CASE k = "0" -> 0 [] k = "1" -> 1 [] k = "2" -> 2 [] k = "3" -> 3
                   [] k = "4" -> 4 [] k = "5" -> 5 [] k = "6" -> 6 [] k = "7" -> 7
                   [] k = "8" -> 8 [] k = "9" -> 9]

\* parseInt(e.key) for a key name: the digit's value, or NaN (None).
parseInt(k) == IF k \in DOMAIN DigitValue THEN Some(DigitValue[k]) ELSE None
\* onKey without the test of the event target.
onKeyAnyTarget(e) ==
    IF ~view.done /\ view.card # None
    THEN IF view.selected = None
         THEN LET num == parseInt(e.key)
              IN  IF num # None /\ num[1] >= 1 /\ num[1] <= 4
                  THEN handleSelect(num[1] - 1)
                  ELSE UNCHANGED quizState
         ELSE IF e.key = "Enter" \/ e.key = "ArrowRight"
              THEN handleNext
              ELSE UNCHANGED quizState
    ELSE UNCHANGED quizState

onKey(e) ==
    IF e.targetIsInput
    THEN UNCHANGED quizState
    ELSE IF ~view.done /\ view.card # None
         THEN IF view.selected = None
              THEN LET num == parseInt(e.key)
                   IN  IF num # None /\ num[1] >= 1 /\ num[1] <= 4
                       THEN handleSelect(num[1] - 1)
                       ELSE UNCHANGED quizState
              ELSE IF e.key = "Enter" \/ e.key = "ArrowRight"
                   THEN handleNext
                   ELSE UNCHANGED quizState
         ELSE UNCHANGED quizState

\* React re-renders after the event and the effects re-register the listener.
Commit ==
    /\ view' = Capture(filter', cards', index', selected')
    /\ pending' = 0

Event(op, key, input, choice) == [op |-> op, key |-> key, input |-> input, choice |-> choice]

\* ----------------------------------------------------------------- actions
\* useEffect(() => { reset('all') }, [])
Mount ==
    /\ ~mounted
    /\ mounted' = TRUE
    /\ reset(Some("all"))
    /\ UNCHANGED filter
    /\ Commit
    /\ lastEvent' = Event("mount", "-", FALSE, 0)
    /\ UNCHANGED <<theoryVars, auxVars>>

\* A click on a category button (shown while the quiz view is rendered).
handleFilter(cat) ==
    /\ mounted
    /\ ~view.done
    /\ filter' = cat
    /\ reset(Some(cat))
    /\ Commit
    /\ lastEvent' = Event("filter", cat, FALSE, 0)
    /\ UNCHANGED <<mounted, text, blocks, pc, parsed, tables, html, auxVars>>

\* A click on "Restart quiz" (shown in the results view): reset().
ClickRestart ==
    /\ mounted
    /\ view.done
    /\ reset(None)
    /\ UNCHANGED filter
    /\ Commit
    /\ lastEvent' = Event("restart", "-", FALSE, 0)
    /\ UNCHANGED <<mounted, text, blocks, pc, parsed, tables, html, auxVars>>

\* A click on choice button i of the rendered card; the button is disabled
\* once a choice is selected, and a disabled button delivers no click.
ClickChoice(i) ==
    /\ mounted
    /\ ~view.done
    /\ view.card # None
    /\ i < view.card[1].choices
    /\ IF view.selected # None THEN UNCHANGED quizState ELSE handleSelect(i)
    /\ Commit
    /\ lastEvent' = Event("choice", "-", FALSE, i)
    /\ UNCHANGED <<mounted, text, blocks, pc, parsed, tables, html, auxVars>>

\* A click on the Next button (rendered only while a choice is selected).
ClickNext ==
    /\ mounted
    /\ ~view.done
    /\ view.card # None
    /\ view.selected # None
    /\ handleNext
    /\ Commit
    /\ lastEvent' = Event("next", "-", FALSE, 0)
    /\ UNCHANGED <<mounted, text, blocks, pc, parsed, tables, html, auxVars>>

\* A keydown event on the window, followed by React's re-render.
KeyDown(e) ==
    /\ mounted
    /\ onKey(e)
    /\ Commit
    /\ lastEvent' = Event("key", e.key, e.targetIsInput, 0)
    /\ UNCHANGED <<mounted, text, blocks, pc, parsed, tables, html, auxVars>>

Init ==
    /\ filter = "all"
    /\ cards = <<>>
    /\ index = 0
    /\ selected = None
    /\ score = 0
    /\ answered = 0
    /\ categoryScores = ZeroScores
    /\ view = Capture("all", <<>>, 0, None)
    /\ mounted = FALSE
    /\ pending = 0
    /\ lastEvent = Event("init", "-", FALSE, 0)
    /\ text = <<>>
    /\ blocks = None
    /\ pc = "idle"
    /\ parsed = None
    /\ tables = None
    /\ html = <<>>
    /\ ShuffleIdle
    /\ VizAbsent
    /\ CodeBlockAbsent

Next ==
    \/ Mount
    \/ \E cat \in Category \cup {"all"} : handleFilter(cat)
    \/ ClickRestart
    \/ \E i \in 0..3 : ClickChoice(i)
    \/ ClickNext
    \/ \E e \in KeyEvents : KeyDown(e)

Spec == Init /\ [][Next]_vars

\* ------------------------------------------------- events before a re-render
\* A keydown event delivered to the listener of the last render while
\* React has not re-rendered yet: the handlers still see that render's values,
\* the state updates queue up (functional updates apply to the queued value).
KeyDownQueued(e) ==
    /\ mounted
    /\ pending < MaxBurst
    /\ onKey(e)
    /\ pending' = pending + 1
    /\ lastEvent' = Event("key", e.key, e.targetIsInput, 0)
    /\ UNCHANGED <<view, mounted, text, blocks, pc, parsed, tables, html, auxVars>>

\* React processes the queued updates, re-renders and re-registers onKey.
Render ==
    /\ pending > 0
    /\ view' = Capture(filter, cards, index, selected)
    /\ pending' = 0
    /\ UNCHANGED <<quizState, mounted, lastEvent, text, blocks, pc, parsed, tables, html, auxVars>>

NextStale ==
    \/ Mount
    \/ \E e \in KeyEvents : KeyDownQueued(e)
    \/ Render

SpecStale == Init /\ [][NextStale]_vars

\* ------------------------------------------------- a user who keeps playing
SelectTaken == \E i \in 0..3 : ClickChoice(i)

LiveSpec == Init /\ [][Next]_vars /\ WF_vars(Mount) /\ WF_vars(SelectTaken) /\ WF_vars(ClickNext)

\* ------------------------------------------------------------ results view
\* Math.round(num / den) for den > 0: the nearest integer, halves rounded up.
MathRound(num, den) == (2 * num + den) \div (2 * den)

\* Math.round((a / b) * 100); a division by zero gives NaN (None).
Pct(a, b) == IF b = 0 THEN None ELSE Some(MathRound(100 * a, b))

\* The overall percentage of the results view.
OverallPct == IF answered > 0 THEN Pct(score, answered) ELSE Some(0)

\* Breakdown without the total === 0 test.
BreakdownEveryCategory ==
    [c \in Category |->
        LET s == categoryScores[c]
        IN  Some([correct |-> s.correct, total |-> s.total, pct |-> Pct(s.correct, s.total)])]

\* The breakdown rows of the results view: None for a category that is not
\* listed (the map callback returns null).
Breakdown ==
    [c \in Category |->
        LET s == categoryScores[c]
        IN  IF s.total = 0 THEN None
            ELSE Some([correct |-> s.correct, total |-> s.total, pct |-> Pct(s.correct, s.total)])]

\* ------------------------------------------------------------ block splitter
\* A text is a sequence of characters (one-character strings).
NL == "\n"
\* The backquote character (a TLA+ string cannot hold it).
Backquote == "BQ"
\* The fence marker: three backquotes.
Fence == <<Backquote, Backquote, Backquote>>

\* The lines topic texts are made of: a blank line, a prose line, a fence
\* and a fence with a language tag.
LineSet == {<<>>, <<"a">>, Fence, Fence \o <<"t">>}

RECURSIVE JoinWith(_, _)
\* parts.join(sep)
JoinWith(parts, sep) ==
    IF Len(parts) = 0 THEN <<>>
    ELSE IF Len(parts) = 1 THEN parts[1]
    ELSE parts[1] \o sep \o JoinWith(Tail(parts), sep)

\* The topic texts of up to MaxLines lines.
Texts ==
    {JoinWith(ls, <<NL>>) : ls \in UNION {[1..n -> LineSet] : n \in 1..MaxLines}}

RECURSIVE SplitLines(_)
\* text.split('\n')
SplitLines(t) ==
    IF \A k \in 1..Len(t) : t[k] # NL THEN <<t>>
    ELSE LET k == CHOOSE k \in 1..Len(t) : t[k] = NL /\ \A m \in 1..(k - 1) : t[m] # NL
         IN  <<SubSeq(t, 1, k - 1)>> \o SplitLines(SubSeq(t, k + 1, Len(t)))

\* line.startsWith(prefix)
StartsWith(line, prefix) ==
    Len(line) >= Len(prefix) /\ SubSeq(line, 1, Len(prefix)) = prefix

\* The fence flag that toggles only on a line that is exactly the marker.
NextInCodeBareMarker(inCode, line) == IF line = Fence THEN ~inCode ELSE inCode

\* The fence flag that forgets to toggle.
NextInCodeStuck(inCode, line) == inCode

\* if (line.startsWith(fence)) inCode = !inCode
NextInCode(inCode, line) == IF StartsWith(line, Fence) THEN ~inCode ELSE inCode

RECURSIVE SplitLoop(_, _, _, _, _)
\* The for loop of splitPreservingCodeFences from line i on, and the final flush.
SplitLoop(lines, i, current, inCode, acc) ==
    IF i > Len(lines)
    THEN IF current # <<>> THEN Append(acc, current) ELSE acc
    ELSE LET line == lines[i]
             nowInCode == NextInCode(inCode, line)
         IN  IF ~nowInCode /\ Len(current) > 0 /\ line = <<>>
             THEN SplitLoop(lines, i + 1, <<>>, nowInCode, Append(acc, current))
             ELSE SplitLoop(lines, i + 1,
                            current \o (IF current # <<>> THEN <<NL>> ELSE <<>>) \o line,
                            nowInCode, acc)
\* A splitter that makes every line a block.
splitAtEveryNewline(t) == SplitLines(t)

splitPreservingCodeFences(t) == SplitLoop(SplitLines(t), 1, <<>>, FALSE, <<>>)

\* The renderer is handed a topic text.
InitTheory ==
    /\ filter = "all"
    /\ cards = <<>>
    /\ index = 0
    /\ selected = None
    /\ score = 0
    /\ answered = 0
    /\ categoryScores = ZeroScores
    /\ view = Capture("all", <<>>, 0, None)
    /\ mounted = FALSE
    /\ pending = 0
    /\ lastEvent = Event("init", "-", FALSE, 0)
    /\ text \in Texts
    /\ blocks = None
    /\ pc = "raw"
    /\ parsed = None
    /\ tables = None
    /\ html = <<>>
    /\ ShuffleIdle
    /\ VizAbsent
    /\ CodeBlockAbsent

\* parseTheoryBlocks splits the text into raw blocks.
SplitText ==
    /\ pc = "raw"
    /\ blocks' = Some(splitPreservingCodeFences(text))
    /\ pc' = "split"
    /\ UNCHANGED <<quizState, view, mounted, pending, lastEvent, text, parsed, tables, html, auxVars>>

NextTheory == SplitText

TheorySpec == InitTheory /\ [][NextTheory]_vars

\* ------------------------------------------------------------ block classifier
\* \d, \s and \w of the regular expressions
IsDigit(ch) == ch \in DOMAIN DigitValue
IsSpace(ch) == ch \in {" ", NL, "\t"}
WordChars ==
    {"a", "b", "c", "d", "e", "f", "g", "h", "i", "j", "k", "l", "m",
     "n", "o", "p", "q", "r", "s", "t", "u", "v", "w", "x", "y", "z",
     "A", "B", "C", "D", "E", "F", "G", "H", "I", "J", "K", "L", "M",
     "N", "O", "P", "Q", "R", "S", "T", "U", "V", "W", "X", "Y", "Z", "_"}
        \cup DOMAIN DigitValue
IsWord(ch) == ch \in WordChars

\* s.slice(0, n) and s.slice(n)
Take(s, n) == SubSeq(s, 1, n)
Drop(s, n) == SubSeq(s, n + 1, Len(s))

\* s.endsWith(suffix)
EndsWith(s, suffix) ==
    Len(s) >= Len(suffix) /\ SubSeq(s, Len(s) - Len(suffix) + 1, Len(s)) = suffix

\* s.includes(sub)
Includes(s, sub) ==
    \E i \in 1..(Len(s) - Len(sub) + 1) : SubSeq(s, i, i + Len(sub) - 1) = sub

\* array.map(f)
MapSeq(f(_), xs) == [i \in 1..Len(xs) |-> f(xs[i])]

RECURSIVE DigitRun(_, _)
\* The number of digits of s from position i on.
DigitRun(s, i) == IF i <= Len(s) /\ IsDigit(s[i]) THEN 1 + DigitRun(s, i + 1) ELSE 0

RECURSIVE WordRun(_, _)
\* The number of word characters of s from position i on.
WordRun(s, i) == IF i <= Len(s) /\ IsWord(s[i]) THEN 1 + WordRun(s, i + 1) ELSE 0

\* The length of the match of \d+\.\s at position i of s, 0 without a match.
OrderedPrefixAt(s, i) ==
    LET n == DigitRun(s, i)
    IN  IF n >= 1 /\ i + n + 1 <= Len(s) /\ s[i + n] = "." /\ IsSpace(s[i + n + 1])
        THEN n + 2 ELSE 0

\* s.replace(/^\d+\.\s/, '')
StripOrderedPrefix(s) == Drop(s, OrderedPrefixAt(s, 1))
\* The dash prefix left in place.
StripDashKept(s) == s

\* s.replace(/^- /, '')
StripDash(s) == IF StartsWith(s, <<"-", " ">>) THEN Drop(s, 2) ELSE s

\* s.replace(/^fence\w*\n?/, '')
StripFenceStart(s) ==
    IF StartsWith(s, Fence)
    THEN LET w == WordRun(s, 4)
             nl == IF 4 + w <= Len(s) /\ s[4 + w] = NL THEN 1 ELSE 0
         IN  Drop(s, 3 + w + nl)
    ELSE s

\* s.replace(/\n?fence$/, ''): $ is the end of the string.
StripFenceEnd(s) ==
    IF EndsWith(s, Fence)
    THEN IF Len(s) >= 4 /\ s[Len(s) - 3] = NL
         THEN Take(s, Len(s) - 4)
         ELSE Take(s, Len(s) - 3)
    ELSE s

\* The positions of the newlines of s that a numbered line follows.
OrderedBreaks(s) == {i \in 1..Len(s) : s[i] = NL /\ OrderedPrefixAt(s, i + 1) > 0}

\* /\n\d+\.\s/.test(s)
HasOrderedLine(s) == OrderedBreaks(s) # {}

RECURSIVE SplitOrdered(_)
\* s.split(/\n(?=\d+\.\s)/)
SplitOrdered(s) ==
    IF OrderedBreaks(s) = {} THEN <<s>>
    ELSE LET k == CHOOSE k \in OrderedBreaks(s) : \A m \in OrderedBreaks(s) : k <= m
         IN  <<Take(s, k - 1)>> \o SplitOrdered(Drop(s, k))

\* The position of the first newline of s (s has one): s.indexOf('\n') + 1.
FirstNewline(s) == CHOOSE k \in 1..Len(s) : s[k] = NL /\ \A m \in 1..(k - 1) : s[m] # NL
\* The heading branch with the table rule tried before the code rule.
HeadingBlockTableFirst(raw) ==
    IF Includes(raw, <<NL, "|">>)
    THEN LET lines == SplitLines(raw)
         IN  Some([type |-> "heading-table", heading |-> Head(lines),
                   tableText |-> JoinWith(Tail(lines), <<NL>>)])
    ELSE IF Includes(raw, <<NL>> \o Fence)
    THEN LET newlineIdx == FirstNewline(raw)
         IN  Some([type |-> "heading-code", heading |-> Take(raw, newlineIdx - 1),
                   code |-> StripFenceEnd(StripFenceStart(Drop(raw, newlineIdx)))])
    ELSE IF HasOrderedLine(raw)
    THEN LET lines == SplitLines(raw)
         IN  Some([type |-> "heading-list", heading |-> Head(lines),
                   items |-> MapSeq(StripOrderedPrefix,
                                    SplitOrdered(JoinWith(Tail(lines), <<NL>>))),
                   ordered |-> TRUE])
    ELSE IF Includes(raw, <<NL, "-">>)
    THEN LET lines == SplitLines(raw)
         IN  Some([type |-> "heading-list", heading |-> Head(lines),
                   items |-> MapSeq(StripDash, Tail(lines)),
                   ordered |-> FALSE])
    ELSE None

\* The heading branch of the map callback of parseTheoryBlocks; None when no
\* heading rule applies.
HeadingBlock(raw) ==
    IF Includes(raw, <<NL>> \o Fence)
    THEN LET newlineIdx == FirstNewline(raw)
             heading == Take(raw, newlineIdx - 1)
             rest == Drop(raw, newlineIdx)
         IN  Some([type |-> "heading-code", heading |-> heading,
                   code |-> StripFenceEnd(StripFenceStart(rest))])
    ELSE IF Includes(raw, <<NL, "|">>)
    THEN LET lines == SplitLines(raw)
         IN  Some([type |-> "heading-table", heading |-> Head(lines),
                   tableText |-> JoinWith(Tail(lines), <<NL>>)])
    ELSE IF HasOrderedLine(raw)
    THEN LET lines == SplitLines(raw)
         IN  Some([type |-> "heading-list", heading |-> Head(lines),
                   items |-> MapSeq(StripOrderedPrefix,
                                    SplitOrdered(JoinWith(Tail(lines), <<NL>>))),
                   ordered |-> TRUE])
    ELSE IF Includes(raw, <<NL, "-">>)
    THEN LET lines == SplitLines(raw)
         IN  Some([type |-> "heading-list", heading |-> Head(lines),
                   items |-> MapSeq(StripDash, Tail(lines)),
                   ordered |-> FALSE])
    ELSE None
\* The map callback with a heading branch that does not fall through to the
\* paragraph rule.
classifyNoFallthrough(raw) ==
    IF StartsWith(raw, <<"|">>)
    THEN [type |-> "table", text |-> raw]
    ELSE IF StartsWith(raw, Fence)
    THEN [type |-> "code", code |-> StripFenceEnd(StripFenceStart(raw))]
    ELSE IF OrderedPrefixAt(raw, 1) > 0
    THEN [type |-> "ordered-list", items |-> MapSeq(StripOrderedPrefix, SplitOrdered(raw))]
    ELSE IF StartsWith(raw, <<"-", " ">>)
    THEN [type |-> "unordered-list", items |-> MapSeq(StripDash, SplitLines(raw))]
    ELSE IF StartsWith(raw, <<"*", "*">>)
    THEN IF HeadingBlock(raw) # None
         THEN HeadingBlock(raw)[1]
         ELSE [type |-> "heading", heading |-> raw]
    ELSE [type |-> "paragraph", text |-> raw]

\* The map callback of parseTheoryBlocks: the Block of one raw block.
classify(raw) ==
    IF StartsWith(raw, <<"|">>)
    THEN [type |-> "table", text |-> raw]
    ELSE IF StartsWith(raw, Fence)
    THEN [type |-> "code", code |-> StripFenceEnd(StripFenceStart(raw))]
    ELSE IF OrderedPrefixAt(raw, 1) > 0
    THEN [type |-> "ordered-list", items |-> MapSeq(StripOrderedPrefix, SplitOrdered(raw))]
    ELSE IF StartsWith(raw, <<"-", " ">>)
    THEN [type |-> "unordered-list", items |-> MapSeq(StripDash, SplitLines(raw))]
    ELSE IF StartsWith(raw, <<"*", "*">>) /\ HeadingBlock(raw) # None
    THEN HeadingBlock(raw)[1]
    ELSE [type |-> "paragraph", text |-> raw]

parseTheoryBlocks(theory) == MapSeq(classify, splitPreservingCodeFences(theory))

\* Number of lines of a text handed to parseTheoryBlocks (ParseSpec only).
MaxParseLines == 4

\* The lines of the texts of ParseSpec: blank, prose, a fence, a fence with a
\* language tag, a table row, a numbered item, a dash item, a dash without a
\* space, a heading.
ParseLineSet ==
    {<<>>, <<"a">>, Fence, Fence \o <<"t">>, <<"|", "a">>, <<"1", ".", " ", "a">>,
     <<"-", " ", "a">>, <<"-", "a">>, <<"*", "*", "H", "*", "*">>}

ParseTexts ==
    {JoinWith(ls, <<NL>>) : ls \in UNION {[1..n -> ParseLineSet] : n \in 1..MaxParseLines}}

InitParse ==
    /\ filter = "all"
    /\ cards = <<>>
    /\ index = 0
    /\ selected = None
    /\ score = 0
    /\ answered = 0
    /\ categoryScores = ZeroScores
    /\ view = Capture("all", <<>>, 0, None)
    /\ mounted = FALSE
    /\ pending = 0
    /\ lastEvent = Event("init", "-", FALSE, 0)
    /\ text \in ParseTexts
    /\ blocks = None
    /\ pc = "raw"
    /\ parsed = None
    /\ tables = None
    /\ html = <<>>
    /\ ShuffleIdle
    /\ VizAbsent
    /\ CodeBlockAbsent

\* The map of parseTheoryBlocks over the raw blocks.
ClassifyBlocks ==
    /\ pc = "split"
    /\ parsed' = Some(MapSeq(classify, blocks[1]))
    /\ pc' = "parsed"
    /\ UNCHANGED <<quizState, view, mounted, pending, lastEvent, text, blocks, tables, html, auxVars>>

NextParse ==
    \/ SplitText
    \/ ClassifyBlocks

ParseSpec == InitParse /\ [][NextParse]_vars

\* ------------------------------------------------------- event classification
SelectEvent(ev) ==
    \/ ev.op = "choice"
    \/ ev.op = "key" /\ ~ev.input /\ ev.key \in {"1", "2", "3", "4"}

AdvanceEvent(ev) ==
    \/ ev.op = "next"
    \/ ev.op = "key" /\ ~ev.input /\ ev.key \in {"Enter", "ArrowRight"}

ResetEvent(ev) == ev.op \in {"mount", "filter", "restart"}

\* The choice index a select event asks for.
ChoiceOf(ev) == IF ev.op = "choice" THEN ev.choice ELSE DigitValue[ev.key] - 1

tallies == <<selected, score, answered, categoryScores>>

\* =====================================================================\* Properties of the quiz
\* =====================================================================
\* C1: once a choice is selected for the current card (Revealed), a further
\* select-choice event, by click or by key 1-4, changes neither selected nor
\* score, answered or the tallies; answered, score and the tallies change only
\* in a reset or in the step that takes the card from unanswered to selected,
\* which counts the card exactly once.
C1_SelectOncePerCard ==
    [][ /\ (selected # None /\ SelectEvent(lastEvent')) => UNCHANGED tallies
        /\ (<<score, answered, categoryScores>>' # <<score, answered, categoryScores>>) =>
              \/ ResetEvent(lastEvent')
              \/ /\ SelectEvent(lastEvent')
                 /\ selected = None
                 /\ selected' # None
                 /\ answered' = answered + 1
                 /\ index' = index ]_vars

\* A select event arrived while another choice was already selected.
C1_Witness ==
    /\ selected # None
    /\ SelectEvent(lastEvent)
    /\ ChoiceOf(lastEvent) # selected[1]
    /\ answered = index + 1

\* C2: when key events are delivered to the listener of one render, a select
\* key press that arrives after a choice was already recorded for the card
\* leaves answered, score and the tallies unchanged.
C2_SecondKeyPressIsNoOp ==
    [][ (pending >= 1 /\ pending' = pending + 1 /\ selected # None /\ SelectEvent(lastEvent'))
            => UNCHANGED <<score, answered, categoryScores>> ]_vars

\* C3: score <= answered <= length of the shuffled deck.
C3_ScoreAnsweredDeck == score <= answered /\ answered <= Len(cards)

\* The whole deck is answered, some answers right and some wrong.
C3_Witness ==
    /\ 0 < score
    /\ score < answered
    /\ answered = Len(cards)

TotalsSum ==
    categoryScores["big-o"].total + categoryScores["data-structures"].total
        + categoryScores["algorithms"].total + categoryScores["techniques"].total

\* C4: the totals of the four categories sum to answered, and a step that
\* answers a card adds 1 to the total of that card's category and to no other.
C4_TalliesSumToAnswered ==
    /\ [](TotalsSum = answered)
    /\ [][ answered' = answered + 1 =>
              /\ card # None
              /\ \A c \in Category :
                    categoryScores'[c].total =
                        categoryScores[c].total + (IF c = card[1].category THEN 1 ELSE 0) ]_vars

\* Cards of two categories have been answered.
C4_Witness ==
    /\ categoryScores["big-o"].total = 2
    /\ categoryScores["data-structures"].total = 1
    /\ answered = 3

\* C5: a select-choice call whose index is out of range for the current
\* card's choices leaves selected null and answered, score and the tallies
\* unchanged.
C5_OutOfRangeIsNoOp ==
    [][ ( /\ lastEvent'.op = "key"
          /\ ~lastEvent'.input
          /\ lastEvent'.key \in DOMAIN DigitValue
          /\ card # None
          /\ selected = None
          /\ DigitValue[lastEvent'.key] - 1 >= card[1].choices )
            => UNCHANGED tallies ]_vars

\* C6: an advance event changes nothing unless a choice is selected, and then
\* clears the selection and moves the position by one, leaving the rest;
\* a selection is cleared only by an advance or a reset.
C6_AdvanceOnlyWhenRevealed ==
    [][ /\ AdvanceEvent(lastEvent') =>
              IF selected # None
              THEN /\ selected' = None
                   /\ index' = index + 1
                   /\ UNCHANGED <<filter, cards, score, answered, categoryScores>>
              ELSE UNCHANGED quizState
        /\ (selected # None /\ selected' = None) =>
              (AdvanceEvent(lastEvent') \/ ResetEvent(lastEvent')) ]_vars

\* An advance has just moved to the second card.
C6_Witness ==
    /\ AdvanceEvent(lastEvent)
    /\ index = 1
    /\ selected = None
    /\ answered = 1

\* The filter a reset event resets to.
ResetSource(ev, activeFilter) ==
    IF ev.op = "mount" THEN "all"
    ELSE IF ev.op = "filter" THEN ev.key
    ELSE activeFilter

\* deck holds every card of pool exactly once and nothing else.
IsPermutation(deck, pool) ==
    /\ Len(deck) = Len(pool)
    /\ \A i \in 1..Len(pool) : Cardinality({j \in 1..Len(deck) : deck[j] = pool[i]}) = 1

\* C7: a reset (mount, filter change, restart) yields position 0, no
\* selection, score 0, answered 0, zero tallies and a deck that is a
\* permutation of the catalog cards of the filter; a restart uses the active
\* filter and a filter change makes its argument the active filter.
C7_ResetState ==
    [][ ResetEvent(lastEvent') =>
            LET source == ResetSource(lastEvent', filter)
            IN  /\ index' = 0
                /\ selected' = None
                /\ score' = 0
                /\ answered' = 0
                /\ categoryScores' = ZeroScores
                /\ filter' = source
                /\ IsPermutation(cards', Pool(source))
                /\ \A j \in 1..Len(cards') :
                      source = "all" \/ cards'[j].category = source ]_vars

\* A filter change has produced the big-o deck in swapped order.
C7_Witness ==
    /\ lastEvent.op = "filter"
    /\ filter = "big-o"
    /\ Len(cards) = 2
    /\ cards[1].id = 2
    /\ answered = 0

ResetStep ==
    \/ Mount
    \/ \E cat \in Category \cup {"all"} : handleFilter(cat)
    \/ ClickRestart

\* C8: unless resets keep occurring, a session with a non-empty deck reaches
\* Complete; the position changes only by an advance (by one) or a reset (to
\* 0), and Complete holds exactly when the position equals the deck length,
\* i.e. after the n-th advance.
C8_Completion ==
    /\ ([]<>(done \/ Len(cards) = 0) \/ []<><<ResetStep>>_vars)
    /\ [](index <= Len(cards))
    /\ [](done <=> (Len(cards) > 0 /\ index = Len(cards)))
    /\ [][ index' # index =>
              \/ AdvanceEvent(lastEvent') /\ index' = index + 1
              \/ ResetEvent(lastEvent') /\ index' = 0 ]_vars

\* The last advance of a three-card deck has completed the session.
C8_Witness ==
    /\ done
    /\ AdvanceEvent(lastEvent)
    /\ Len(cards) = 3
    /\ index = 3

\* p is x / y * 100 rounded to the nearest integer, halves up.
IsRounded(p, x, y) == 2 * p * y <= 200 * x + y /\ 200 * x + y < 2 * (p + 1) * y

\* C9: in Complete every category with total > 0 is listed with the rounded
\* percentage of correct answers, which lies in 0..100; a category with
\* total = 0 is not listed; the overall percentage is the rounded percentage
\* of score in answered, or 0 when answered = 0; no percentage is NaN.
C9_Report ==
    done =>
        /\ \A c \in Category :
              LET s == categoryScores[c]
                  row == Breakdown[c]
              IN  IF s.total > 0
                  THEN /\ row # None
                       /\ row[1].pct # None
                       /\ row[1].pct[1] \in 0..100
                       /\ IsRounded(row[1].pct[1], s.correct, s.total)
                  ELSE row = None
        /\ OverallPct # None
        /\ OverallPct[1] \in 0..100
        /\ IF answered = 0 THEN OverallPct[1] = 0
           ELSE IsRounded(OverallPct[1], score, answered)

\* Complete with one of three answers right: 33% overall, 50% for big-o,
\* two categories not listed.
C9_Witness ==
    /\ done
    /\ answered = 3
    /\ score = 1
    /\ OverallPct = Some(33)
    /\ Breakdown["big-o"] # None
    /\ Breakdown["big-o"][1].pct = Some(50)
    /\ Breakdown["algorithms"] = None

\* =========================================================================
\* Properties of the block splitter
\* =========================================================================

\* The raw blocks re-joined with one blank line between consecutive blocks.
Rejoined == JoinWith(blocks[1], <<NL, NL>>)

\* Line k lies inside a fenced region: an odd number of fence lines up to k.
InFence(lines, k) ==
    Cardinality({j \in 1..k : StartsWith(lines[j], Fence)}) % 2 = 1

\* Line k is a blank line outside a fence that is the first line, the last
\* line or directly follows another blank line.
StrayBlank(lines, k) ==
    /\ lines[k] = <<>>
    /\ ~InFence(lines, k)
    /\ (k = 1 \/ k = Len(lines) \/ lines[k - 1] = <<>>)

\* The empty text, or a text without stray blank lines.
WellSeparated(t) ==
    \/ t = <<>>
    \/ LET lines == SplitLines(t) IN \A k \in 1..Len(lines) : ~StrayBlank(lines, k)

\* C10 as stated: re-joining the raw blocks of any text with one blank line
\* between consecutive blocks gives the text back.
C10_RoundTripEveryText == pc = "split" => Rejoined = text

\* C10 amended: re-joining the raw blocks gives the text back exactly when the
\* text is empty or has, outside fenced regions, no blank line at its start,
\* at its end or directly after another blank line.
C10_RoundTripWellSeparated == pc = "split" => (Rejoined = text <=> WellSeparated(text))

\* A text of two blocks with a blank line inside a fence has been split and
\* re-joins to itself.
C10_Witness ==
    /\ pc = "split"
    /\ Len(blocks[1]) = 2
    /\ \E k \in 1..Len(SplitLines(text)) :
          SplitLines(text)[k] = <<>> /\ InFence(SplitLines(text), k)
    /\ Rejoined = text

\* ------------------------------------------------------------- table parser
RECURSIVE SplitOn(_, _)
\* s.split(ch) for a one-character separator
SplitOn(s, ch) ==
    IF \A k \in 1..Len(s) : s[k] # ch THEN <<s>>
    ELSE LET k == CHOOSE k \in 1..Len(s) : s[k] = ch /\ \A m \in 1..(k - 1) : s[m] # ch
         IN  <<Take(s, k - 1)>> \o SplitOn(Drop(s, k), ch)

RECURSIVE TrimStart(_)
TrimStart(s) == IF Len(s) > 0 /\ IsSpace(s[1]) THEN TrimStart(Tail(s)) ELSE s

RECURSIVE TrimEnd(_)
TrimEnd(s) == IF Len(s) > 0 /\ IsSpace(s[Len(s)]) THEN TrimEnd(Take(s, Len(s) - 1)) ELSE s

\* s.trim()
Trim(s) == TrimEnd(TrimStart(s))

\* array.filter(Boolean) on strings: the empty string is the only falsy one.
NonEmpty(s) == s # <<>>
FilterBoolean(xs) == SelectSeq(xs, NonEmpty)

\* r.match(/^\|[-|]+\|$/): a pipe, one or more hyphens or pipes, a pipe.
IsSeparatorRow(r) ==
    /\ Len(r) >= 3
    /\ r[1] = "|"
    /\ r[Len(r)] = "|"
    /\ \A k \in 2..(Len(r) - 1) : r[k] \in {"-", "|"}

NotSeparatorRow(r) == ~IsSeparatorRow(r)

\* row.split('|').filter(Boolean).map((c) => c.trim())
RowCells(row) == MapSeq(Trim, FilterBoolean(SplitOn(row, "|")))

\* What reading a property of undefined throws.
TypeError == [thrown |-> "TypeError"]

\* TheoryTable up to its return statement: header and body, or the TypeError
\* of rows[0].split when no row is left.
TheoryTable(t) ==
    LET rows == SelectSeq(SplitLines(Trim(t)), NotSeparatorRow)
    IN  IF Len(rows) = 0 THEN TypeError
        ELSE [header |-> RowCells(rows[1]), body |-> MapSeq(RowCells, Tail(rows))]

\* The table text TheoryBlock hands to TheoryTable, None for a Block that has
\* no table.
TableTextOf(b) ==
    IF b.type = "table" THEN Some(b.text)
    ELSE IF b.type = "heading-table" THEN Some(b.tableText)
    ELSE None

\* Number of lines of a text of TableSpec.
MaxTableLines == 4

\* The lines of the texts of TableSpec: blank, a row, a separator, a row with
\* an empty interior field, a shorter row, a hyphen row without closing pipe,
\* a heading.
TableLineSet ==
    {<<>>, <<"|", "a", "|", "b", "|">>, <<"|", "-", "|", "-", "|">>,
     <<"|", " ", "a", "|", "|", "b", "|">>, <<"|", "1", "|">>, <<"|", "-">>,
     <<"*", "*", "H", "*", "*">>}

TableTexts ==
    {JoinWith(ls, <<NL>>) : ls \in UNION {[1..n -> TableLineSet] : n \in 1..MaxTableLines}}

InitTable ==
    /\ filter = "all"
    /\ cards = <<>>
    /\ index = 0
    /\ selected = None
    /\ score = 0
    /\ answered = 0
    /\ categoryScores = ZeroScores
    /\ view = Capture("all", <<>>, 0, None)
    /\ mounted = FALSE
    /\ pending = 0
    /\ lastEvent = Event("init", "-", FALSE, 0)
    /\ text \in TableTexts
    /\ blocks = None
    /\ pc = "raw"
    /\ parsed = None
    /\ tables = None
    /\ html = <<>>
    /\ ShuffleIdle
    /\ VizAbsent
    /\ CodeBlockAbsent

\* TheoryBlock over the Blocks: TheoryTable on every table and heading-table.
RenderTables ==
    /\ pc = "parsed"
    /\ tables' = Some([i \in 1..Len(parsed[1]) |->
                        IF TableTextOf(parsed[1][i]) = None THEN None
                        ELSE Some(TheoryTable(TableTextOf(parsed[1][i])[1]))])
    /\ pc' = "rendered"
    /\ UNCHANGED <<quizState, view, mounted, pending, lastEvent, text, blocks, parsed, html, auxVars>>

NextTable ==
    \/ SplitText
    \/ ClassifyBlocks
    \/ RenderTables

TableSpec == InitTable /\ [][NextTable]_vars

\* ------------------------------------------------------------------- C11
\* The fields of each of the eight variants of Block.
BlockFields ==
    [t \in {"paragraph", "heading-list", "heading-table", "heading-code",
            "table", "code", "ordered-list", "unordered-list"} |->
        CASE t = "paragraph" -> {"type", "text"}
          [] t = "heading-list" -> {"type", "heading", "items", "ordered"}
          [] t = "heading-table" -> {"type", "heading", "tableText"}
          [] t = "heading-code" -> {"type", "heading", "code"}
          [] t = "table" -> {"type", "text"}
          [] t = "code" -> {"type", "code"}
          [] t = "ordered-list" -> {"type", "items"}
          [] t = "unordered-list" -> {"type", "items"}]

IsBlock(b) == \E t \in DOMAIN BlockFields : b.type = t /\ DOMAIN b = BlockFields[t]

\* C11: the classifier is total and deterministic: the parse has exactly one
\* Block per raw block, in order, every Block is one of the eight variants with
\* that variant's fields, and equal raw blocks have equal Blocks.
C11_ClassifierTotal ==
    pc = "parsed" =>
        /\ Len(parsed[1]) = Len(blocks[1])
        /\ \A i \in 1..Len(parsed[1]) : IsBlock(parsed[1][i])
        /\ \A i, j \in 1..Len(blocks[1]) :
              blocks[1][i] = blocks[1][j] => parsed[1][i] = parsed[1][j]

\* Two equal raw blocks that start with the heading marker and match no
\* heading rule have been classified.
C11_Witness ==
    /\ pc = "parsed"
    /\ Len(blocks[1]) = 2
    /\ blocks[1][1] = blocks[1][2]
    /\ StartsWith(blocks[1][1], <<"*", "*">>)
    /\ parsed[1][1].type = "paragraph"

\* ------------------------------------------------------------------- C12
\* Some line of raw after the first starts with the prefix.
LaterLineStarts(raw, prefix) ==
    \E k \in 2..Len(SplitLines(raw)) : StartsWith(SplitLines(raw)[k], prefix)

\* At the start of some line of raw after the first stand digits, a period and
\* whitespace (the newline that ends the line is whitespace).
LaterLineNumbered(raw) ==
    LET lines == SplitLines(raw)
    IN  \E k \in 2..Len(lines) :
            OrderedPrefixAt(IF k < Len(lines) THEN lines[k] \o <<NL>> ELSE lines[k], 1) > 0

\* The variant the priority list of the claim gives a raw block, and the
\* ordered flag of a heading-list.
RuleVariant(raw) ==
    IF StartsWith(raw, <<"|">>) THEN <<"table">>
    ELSE IF StartsWith(raw, Fence) THEN <<"code">>
    ELSE IF OrderedPrefixAt(raw, 1) > 0 THEN <<"ordered-list">>
    ELSE IF StartsWith(raw, <<"-", " ">>) THEN <<"unordered-list">>
    ELSE IF StartsWith(raw, <<"*", "*">>) /\ LaterLineStarts(raw, Fence)
    THEN <<"heading-code">>
    ELSE IF StartsWith(raw, <<"*", "*">>) /\ LaterLineStarts(raw, <<"|">>)
    THEN <<"heading-table">>
    ELSE IF StartsWith(raw, <<"*", "*">>) /\ LaterLineNumbered(raw)
    THEN <<"heading-list", TRUE>>
    ELSE IF StartsWith(raw, <<"*", "*">>) /\ LaterLineStarts(raw, <<"-">>)
    THEN <<"heading-list", FALSE>>
    ELSE <<"paragraph">>

VariantOf(b) ==
    IF b.type = "heading-list" THEN <<b.type, b.ordered>> ELSE <<b.type>>

\* C12: the variant of every Block is that of the first satisfied rule of the
\* priority list table, code, ordered list, unordered list, heading with a
\* later fence, heading with a later pipe line, heading with a later numbered
\* line, heading with a later dash line, paragraph.
C12_DecisionOrder ==
    pc = "parsed" =>
        \A i \in 1..Len(parsed[1]) : VariantOf(parsed[1][i]) = RuleVariant(blocks[1][i])

\* A heading block with both a later pipe line and a later fence has been
\* classified as heading-code.
C12_Witness ==
    /\ pc = "parsed"
    /\ \E i \in 1..Len(parsed[1]) :
          /\ StartsWith(blocks[1][i], <<"*", "*">>)
          /\ LaterLineStarts(blocks[1][i], Fence)
          /\ LaterLineStarts(blocks[1][i], <<"|">>)
          /\ parsed[1][i].type = "heading-code"

\* ------------------------------------------------------------------- C13
\* The first line of raw starts with the heading marker and raw has later
\* lines, all of which start with a dash and a space.
HeadingWithDashItems(raw) ==
    /\ StartsWith(raw, <<"*", "*">>)
    /\ Len(SplitLines(raw)) >= 2
    /\ \A k \in 2..Len(SplitLines(raw)) : StartsWith(SplitLines(raw)[k], <<"-", " ">>)

\* The later lines of raw in order, each without its first two characters.
DashItems(raw) ==
    [k \in 1..(Len(SplitLines(raw)) - 1) |->
        SubSeq(SplitLines(raw)[k + 1], 3, Len(SplitLines(raw)[k + 1]))]

HeadingExample ==
    <<"*", "*", "H", "e", "a", "d", "i", "n", "g", "*", "*", NL, "-", " ",
      "i", "t", "e", "m", "1", NL, "-", " ", "i", "t", "e", "m", "2">>

\* C13: a block whose first line starts with the heading marker and whose
\* later lines all start with a dash and a space is a heading-list with
\* ordered = FALSE, its first line as heading and its later lines, without the
\* dash and the space, as items; so is the block of the heading example.
C13_HeadingUnorderedList ==
    /\ pc = "parsed" =>
          \A i \in 1..Len(parsed[1]) :
              HeadingWithDashItems(blocks[1][i]) =>
                  parsed[1][i] = [type |-> "heading-list",
                                  heading |-> Head(SplitLines(blocks[1][i])),
                                  items |-> DashItems(blocks[1][i]),
                                  ordered |-> FALSE]
    /\ classify(HeadingExample) =
          [type |-> "heading-list",
           heading |-> <<"*", "*", "H", "e", "a", "d", "i", "n", "g", "*", "*">>,
           items |-> <<<<"i", "t", "e", "m", "1">>, <<"i", "t", "e", "m", "2">>>>,
           ordered |-> FALSE]

\* A heading with two dash items has been classified.
C13_Witness ==
    /\ pc = "parsed"
    /\ \E i \in 1..Len(parsed[1]) :
          /\ HeadingWithDashItems(blocks[1][i])
          /\ Len(SplitLines(blocks[1][i])) = 3
          /\ Len(parsed[1][i].items) = 2

\* ------------------------------------------------------------------- C19
\* The positions of the opening fence line of lines and of the fence line that
\* closes it: the first two lines that start with the fence marker.
FenceLines(lines) == {k \in 1..Len(lines) : StartsWith(lines[k], Fence)}
OpeningFence(lines) == {k \in FenceLines(lines) : \A m \in FenceLines(lines) : k <= m}
ClosingFence(lines) ==
    {k \in FenceLines(lines) \ OpeningFence(lines) :
        \A m \in FenceLines(lines) \ OpeningFence(lines) : k <= m}

\* lines without the lines at the positions of drop.
WithoutLines(lines, drop) ==
    LET F[k \in 0..Len(lines)] ==
            IF k = 0 THEN <<>>
            ELSE IF k \in drop THEN F[k - 1]
            ELSE Append(F[k - 1], lines[k])
    IN  F[Len(lines)]

\* The text of lines with the opening and the closing fence line removed and
\* nothing else changed.
WithoutFences(lines) ==
    JoinWith(WithoutLines(lines, OpeningFence(lines) \cup ClosingFence(lines)), <<NL>>)

\* C19: every raw block that starts with the fence marker is a code Block
\* whose code is the block without its opening fence line and without its
\* closing fence line, if it has one.
C19_CodeExtraction ==
    pc = "parsed" =>
        \A i \in 1..Len(parsed[1]) :
            StartsWith(blocks[1][i], Fence) =>
                parsed[1][i] = [type |-> "code",
                                code |-> WithoutFences(SplitLines(blocks[1][i]))]

\* ------------------------------------------------------------------- C20
\* C20: every raw block that starts with the heading marker and has a later
\* line starting with the fence marker is a heading-code Block with the first
\* line as heading and, as code, the later lines without the opening and the
\* closing fence line, so that no line of code starts with the fence marker.
C20_HeadingCodeExtraction ==
    pc = "parsed" =>
        \A i \in 1..Len(parsed[1]) :
            (StartsWith(blocks[1][i], <<"*", "*">>) /\ LaterLineStarts(blocks[1][i], Fence)) =>
                /\ parsed[1][i] =
                      [type |-> "heading-code",
                       heading |-> Head(SplitLines(blocks[1][i])),
                       code |-> WithoutFences(Tail(SplitLines(blocks[1][i])))]
                /\ FenceLines(SplitLines(parsed[1][i].code)) = {}

\* ------------------------------------------------------------------- C18
\* The blank lines of lines that lie outside every fenced region.
Breaks(lines) == {k \in 1..Len(lines) : lines[k] = <<>> /\ ~InFence(lines, k)}

\* The maximal runs <<a, b>> of consecutive lines without such a blank line.
Runs(lines) ==
    {r \in (1..Len(lines)) \X (1..Len(lines)) :
        /\ r[1] <= r[2]
        /\ \A k \in r[1]..r[2] : k \notin Breaks(lines)
        /\ (r[1] = 1 \/ (r[1] - 1) \in Breaks(lines))
        /\ (r[2] = Len(lines) \/ (r[2] + 1) \in Breaks(lines))}

\* The position of a run among the runs, in text order.
RunRank(lines, r) == Cardinality({q \in Runs(lines) : q[1] <= r[1]})

\* The fence line that opens a region which is never closed, if there is one.
UnclosedFence(lines) ==
    {k \in FenceLines(lines) :
        InFence(lines, Len(lines)) /\ \A m \in FenceLines(lines) : m <= k}

\* C18: a blank line ends the current block if and only if it lies outside a
\* fenced region: the raw blocks are, in order, the maximal runs of lines
\* without a blank line outside a fence, blank lines inside a fence included;
\* and the lines from an unclosed fence to the end of the text are the end of
\* the last block.
C18_FenceHandling ==
    pc = "split" =>
        LET lines == SplitLines(text)
        IN  /\ Len(blocks[1]) = Cardinality(Runs(lines))
            /\ \A r \in Runs(lines) :
                  blocks[1][RunRank(lines, r)] = JoinWith(SubSeq(lines, r[1], r[2]), <<NL>>)
            /\ \A k \in UnclosedFence(lines) :
                  /\ Len(blocks[1]) >= 1
                  /\ EndsWith(blocks[1][Len(blocks[1])],
                              JoinWith(SubSeq(lines, k, Len(lines)), <<NL>>))

\* A text has been split at a blank line outside a fence and keeps, in its
\* last block, a blank line that follows an unclosed tagged fence.
C18_Witness ==
    /\ pc = "split"
    /\ Len(blocks[1]) = 2
    /\ \E k \in UnclosedFence(SplitLines(text)) :
          /\ SplitLines(text)[k] # Fence
          /\ k < Len(SplitLines(text))
          /\ SplitLines(text)[k + 1] = <<>>
\* ----------------------------------------------------------- inline formatter
\* The markup the four replacements of formatInline put around a match.
CodeOpen ==
    <<"<", "c", "o", "d", "e", " ", "c", "l", "a", "s", "s", "=", "\"", "p",
      "x", "-", "1", ".", "5", " ", "p", "y", "-", "0", ".", "5", " ", "r",
      "o", "u", "n", "d", "e", "d", " ", "b", "g", "-", "s", "l", "a", "t",
      "e", "-", "1", "0", "0", " ", "t", "e", "x", "t", "-", "s", "l", "a",
      "t", "e", "-", "7", "0", "0", " ", "t", "e", "x", "t", "-", "s", "m",
      " ", "f", "o", "n", "t", "-", "m", "o", "n", "o", "\"", ">">>

CodeClose ==
    <<"<", "/", "c", "o", "d", "e", ">">>

StrongOpen ==
    <<"<", "s", "t", "r", "o", "n", "g", " ", "c", "l", "a", "s", "s", "=",
      "\"", "t", "e", "x", "t", "-", "s", "l", "a", "t", "e", "-", "7", "0",
      "0", " ", "f", "o", "n", "t", "-", "s", "e", "m", "i", "b", "o", "l",
      "d", "\"", ">">>

StrongClose ==
    <<"<", "/", "s", "t", "r", "o", "n", "g", ">">>

EmOpen ==
    <<"<", "e", "m", ">">>

EmClose ==
    <<"<", "/", "e", "m", ">">>

BigOOpen ==
    <<"<", "s", "p", "a", "n", " ", "c", "l", "a", "s", "s", "=", "\"", "b",
      "i", "g", "o", "\"", ">">>

BigOClose ==
    <<"<", "/", "s", "p", "a", "n", ">">>

\* The position of the first ch in s at or after from, 0 when there is none.
FirstOf(s, from, ch) ==
    IF \E k \in from..Len(s) : s[k] = ch
    THEN CHOOSE k \in from..Len(s) : s[k] = ch /\ \A m \in from..(k - 1) : s[m] # ch
    ELSE 0

\* The last position of the match of a backquote, one or more characters that
\* are no backquote, a backquote, starting at i; 0 without a match.
CodeMatchEnd(s, i) ==
    IF s[i] = Backquote /\ FirstOf(s, i + 1, Backquote) >= i + 2
    THEN FirstOf(s, i + 1, Backquote) ELSE 0

\* The same for two asterisks, one or more characters that are no asterisk,
\* two asterisks.
StrongMatchEnd(s, i) ==
    LET k == FirstOf(s, i + 2, "*")
    IN  IF /\ i + 1 <= Len(s) /\ s[i] = "*" /\ s[i + 1] = "*"
           /\ k >= i + 3 /\ k + 1 <= Len(s) /\ s[k + 1] = "*"
        THEN k + 1 ELSE 0

\* The same for an asterisk, one or more characters that are no asterisk, an
\* asterisk.
EmMatchEnd(s, i) ==
    IF s[i] = "*" /\ FirstOf(s, i + 1, "*") >= i + 2
    THEN FirstOf(s, i + 1, "*") ELSE 0

\* (?<!<[^>]*): position i lies after a "<" with no ">" in between.
InsideTag(s, i) ==
    \E p \in 1..(i - 1) : s[p] = "<" /\ \A q \in (p + 1)..(i - 1) : s[q] # ">"

\* (?<!["\w]): the character before position i is a double quote or a word
\* character.
AfterQuoteOrWord(s, i) == i > 1 /\ (s[i - 1] = "\"" \/ IsWord(s[i - 1]))

\* The same for O, an opening parenthesis, one or more characters that are no
\* closing parenthesis, a closing parenthesis, under the two lookbehinds.
BigOMatchEnd(s, i) ==
    IF /\ i + 1 <= Len(s) /\ s[i] = "O" /\ s[i + 1] = "("
       /\ FirstOf(s, i + 2, ")") >= i + 3
       /\ ~InsideTag(s, i)
       /\ ~AfterQuoteOrWord(s, i)
    THEN FirstOf(s, i + 2, ")") ELSE 0

\* The first position at or after i where the pattern matches, 0 when it
\* matches nowhere: where the global replace finds its next match.
NextMatch(MatchEnd(_, _), s, i) ==
    IF \E p \in i..Len(s) : MatchEnd(s, p) > 0
    THEN CHOOSE p \in i..Len(s) :
            MatchEnd(s, p) > 0 /\ \A q \in i..(p - 1) : MatchEnd(s, q) = 0
    ELSE 0

RECURSIVE ReplaceCode(_, _)
\* s.replace(code pattern, code markup around $1) from position i on
ReplaceCode(s, i) ==
    LET p == NextMatch(CodeMatchEnd, s, i)
        e == CodeMatchEnd(s, p)
    IN  IF p = 0 THEN SubSeq(s, i, Len(s))
        ELSE SubSeq(s, i, p - 1) \o CodeOpen \o SubSeq(s, p + 1, e - 1) \o CodeClose
                \o ReplaceCode(s, e + 1)

RECURSIVE ReplaceStrong(_, _)
\* s.replace(strong pattern, strong markup around $1) from position i on
ReplaceStrong(s, i) ==
    LET p == NextMatch(StrongMatchEnd, s, i)
        e == StrongMatchEnd(s, p)
    IN  IF p = 0 THEN SubSeq(s, i, Len(s))
        ELSE SubSeq(s, i, p - 1) \o StrongOpen \o SubSeq(s, p + 2, e - 2) \o StrongClose
                \o ReplaceStrong(s, e + 1)

RECURSIVE ReplaceEm(_, _)
\* s.replace(em pattern, em markup around $1) from position i on
ReplaceEm(s, i) ==
    LET p == NextMatch(EmMatchEnd, s, i)
        e == EmMatchEnd(s, p)
    IN  IF p = 0 THEN SubSeq(s, i, Len(s))
        ELSE SubSeq(s, i, p - 1) \o EmOpen \o SubSeq(s, p + 1, e - 1) \o EmClose
                \o ReplaceEm(s, e + 1)

RECURSIVE ReplaceBigO(_, _)
\* s.replace(Big-O pattern, Big-O markup around the match) from position i on
ReplaceBigO(s, i) ==
    LET p == NextMatch(BigOMatchEnd, s, i)
        e == BigOMatchEnd(s, p)
    IN  IF p = 0 THEN SubSeq(s, i, Len(s))
        ELSE SubSeq(s, i, p - 1) \o BigOOpen \o SubSeq(s, p, e) \o BigOClose
                \o ReplaceBigO(s, e + 1)

\* The four replacements in their order: code, strong, em, Big-O.
formatInline(t) == ReplaceBigO(ReplaceEm(ReplaceStrong(ReplaceCode(t, 1), 1), 1), 1)

\* Number of tokens of a text handed to formatInline (InlineSpec only).
MaxInlineTokens == 5

\* The tokens of the texts of InlineSpec.
InlineTokens == {<<Backquote>>, <<"*">>, <<"O", "(", "n", ")">>, <<"n">>, <<" ">>}

InlineTexts ==
    {JoinWith(ts, <<>>) : ts \in UNION {[1..n -> InlineTokens] : n \in 1..MaxInlineTokens}}

InitInline ==
    /\ filter = "all"
    /\ cards = <<>>
    /\ index = 0
    /\ selected = None
    /\ score = 0
    /\ answered = 0
    /\ categoryScores = ZeroScores
    /\ view = Capture("all", <<>>, 0, None)
    /\ mounted = FALSE
    /\ pending = 0
    /\ lastEvent = Event("init", "-", FALSE, 0)
    /\ text \in InlineTexts
    /\ blocks = None
    /\ pc = "inline"
    /\ parsed = None
    /\ tables = None
    /\ html = <<>>
    /\ ShuffleIdle
    /\ VizAbsent
    /\ CodeBlockAbsent

\* formatInline on the text.
FormatText ==
    /\ pc = "inline"
    /\ html' = <<formatInline(text)>>
    /\ pc' = "formatted"
    /\ UNCHANGED <<quizState, view, mounted, pending, lastEvent, text, blocks, parsed, tables, auxVars>>

\* formatInline on its own result.
FormatAgain ==
    /\ pc = "formatted"
    /\ html' = Append(html, formatInline(html[1]))
    /\ pc' = "reformatted"
    /\ UNCHANGED <<quizState, view, mounted, pending, lastEvent, text, blocks, parsed, tables, auxVars>>

NextInline ==
    \/ FormatText
    \/ FormatAgain

InlineSpec == InitInline /\ [][NextInline]_vars

\* ------------------------------------------------------------------- C16
\* A line made only of pipes and hyphens.
PipesAndHyphens(line) == line # <<>> /\ \A k \in 1..Len(line) : line[k] \in {"|", "-"}

NotPipesAndHyphens(line) == ~PipesAndHyphens(line)

\* The fields of a line between its pipes, trimmed, without the empty field
\* before a leading pipe and the empty field after a trailing pipe.
FieldsBetweenPipes(line) ==
    LET fields == SplitOn(line, "|")
        from == IF Len(fields) >= 2 /\ fields[1] = <<>> THEN 2 ELSE 1
        to == IF Len(fields) >= 2 /\ fields[Len(fields)] = <<>>
              THEN Len(fields) - 1 ELSE Len(fields)
    IN  MapSeq(Trim, SubSeq(fields, from, to))

\* The lines of a table text that are not made only of pipes and hyphens.
RemainingLines(t) == SelectSeq(SplitLines(t), NotPipesAndHyphens)

TableExample ==
    <<"|", " ", "a", " ", "|", " ", "b", " ", "|", NL, "|", "-", "-", "-",
      "|", "-", "-", "-", "|", NL, "|", " ", "1", " ", "|", " ", "2", " ",
      "|">>

\* C16: the table of every table text with a remaining line has the fields of
\* the first remaining line as header and the fields of the other remaining
\* lines as body, interior empty fields kept; the table of the example has
\* header a, b and the one body row 1, 2.
C16_TableResult ==
    /\ pc = "rendered" =>
          \A i \in 1..Len(tables[1]) :
              (tables[1][i] # None /\ RemainingLines(TableTextOf(parsed[1][i])[1]) # <<>>) =>
                  LET rem == RemainingLines(TableTextOf(parsed[1][i])[1])
                  IN  tables[1][i][1] =
                          [header |-> FieldsBetweenPipes(rem[1]),
                           body |-> MapSeq(FieldsBetweenPipes, Tail(rem))]
    /\ TheoryTable(TableExample) =
          [header |-> <<<<"a">>, <<"b">>>>, body |-> <<<<<<"1">>, <<"2">>>>>>]

\* ------------------------------------------------------------------- C17
\* C17: TheoryTable returns a header and a body for every table text the
\* classifier produces; it never throws.
C17_TableNeverThrows ==
    pc = "rendered" =>
        \A i \in 1..Len(tables[1]) :
            tables[1][i] # None => DOMAIN tables[1][i][1] = {"header", "body"}

\* ------------------------------------------------------------------- C14
\* sub occurs in s at position p.
OccursAt(s, p, sub) ==
    p + Len(sub) - 1 <= Len(s) /\ SubSeq(s, p, p + Len(sub) - 1) = sub

\* Position p of out lies inside a code span: after a code opening tag with no
\* code closing tag in between.
InCodeSpan(out, p) ==
    \E a \in 1..(p - 1) :
        OccursAt(out, a, CodeOpen) /\ \A c \in a..(p - 1) : ~OccursAt(out, c, CodeClose)

CodeBigOExample ==
    <<Backquote, "O", "(", "n", ")", Backquote>>

\* C14: in the result of formatInline no Big-O span opens inside a code span;
\* the result for the Big-O expression between backquotes is the code span
\* around the unchanged expression.
C14_CodeSpanProtected ==
    /\ pc \in {"formatted", "reformatted"} =>
          \A p \in 1..Len(html[1]) :
              OccursAt(html[1], p, BigOOpen) => ~InCodeSpan(html[1], p)
    /\ formatInline(CodeBigOExample) = CodeOpen \o <<"O", "(", "n", ")">> \o CodeClose

\* ------------------------------------------------------------------- C15
BigOExample ==
    <<"O", "(", "n", ")">>

BoldExample ==
    <<"*", "*", "b", "o", "l", "d", "*", "*">>

CodeExample ==
    <<Backquote, "x", Backquote>>

\* C15: formatInline applied to its own result returns that result, for every
\* text and for the three examples.
C15_Idempotent ==
    /\ pc = "reformatted" => html[2] = html[1]
    /\ \A t \in {BigOExample, BoldExample, CodeExample} :
          formatInline(formatInline(t)) = formatInline(t)

\* ------------------------------------------------------------------- C21
\* raw starts with the heading marker and has no later fence, pipe line or
\* numbered line.
HeadingWithoutCodeTableNumbers(raw) ==
    /\ StartsWith(raw, <<"*", "*">>)
    /\ ~LaterLineStarts(raw, Fence)
    /\ ~LaterLineStarts(raw, <<"|">>)
    /\ ~LaterLineNumbered(raw)

\* C21: a heading block that matches none of the rules for code, table and
\* numbered list is a heading-list with ordered = FALSE if and only if some
\* later line starts with a dash and a space; otherwise it is a paragraph, in
\* particular when its later lines start with a dash without a space.
C21_HeadingDashNeedsSpace ==
    pc = "parsed" =>
        \A i \in 1..Len(parsed[1]) :
            HeadingWithoutCodeTableNumbers(blocks[1][i]) =>
                IF LaterLineStarts(blocks[1][i], <<"-", " ">>)
                THEN VariantOf(parsed[1][i]) = <<"heading-list", FALSE>>
                ELSE parsed[1][i].type = "paragraph"

\* ------------------------------------------------------------------- C22
\* The positions of the lines that start with digits, a period and whitespace
\* (the newline that ends a line is whitespace).
NumberedLines(lines) ==
    {k \in 1..Len(lines) :
        OrderedPrefixAt(IF k < Len(lines) THEN lines[k] \o <<NL>> ELSE lines[k], 1) > 0}

\* The last line of the item that the numbered line k starts: the line before
\* the next numbered line, or the last line.
ItemEnd(lines, k) ==
    IF \E m \in NumberedLines(lines) : m > k
    THEN (CHOOSE m \in NumberedLines(lines) :
              m > k /\ \A q \in NumberedLines(lines) : q > k => m <= q) - 1
    ELSE Len(lines)

\* One item per numbered line, in order: the line without its numeric prefix,
\* followed by the lines up to the next numbered line.
NumberedItems(lines) ==
    [j \in 1..Cardinality(NumberedLines(lines)) |->
        LET k == CHOOSE k \in NumberedLines(lines) :
                    Cardinality({m \in NumberedLines(lines) : m <= k}) = j
        IN  StripOrderedPrefix(JoinWith(SubSeq(lines, k, ItemEnd(lines, k)), <<NL>>))]

\* C22: the items of an ordered-list Block, and of a heading-list Block with
\* ordered = TRUE, are one item per numbered line of the list, in source
\* order, without the numeric prefix, every other line staying in the item of
\* the numbered line before it; there are as many items as numbered lines.
C22_OrderedItems ==
    pc = "parsed" =>
        \A i \in 1..Len(parsed[1]) :
            LET lines == SplitLines(blocks[1][i])
                list == IF parsed[1][i].type = "ordered-list" THEN lines ELSE Tail(lines)
            IN  VariantOf(parsed[1][i]) \in {<<"ordered-list">>, <<"heading-list", TRUE>>} =>
                    /\ Len(parsed[1][i].items) = Cardinality(NumberedLines(list))
                    /\ parsed[1][i].items = NumberedItems(list)

\* ------------------------------------------------------------------- C23
\* C23: the empty text has no block; a non-empty text without a blank line
\* has exactly one block, the text itself; no block is the empty string.
C23_SplitterEdgeCases ==
    pc = "split" =>
        /\ text = <<>> => blocks[1] = <<>>
        /\ (text # <<>> /\ \A k \in 1..Len(SplitLines(text)) : SplitLines(text)[k] # <<>>)
              => blocks[1] = <<text>>
        /\ \A i \in 1..Len(blocks[1]) : blocks[1][i] # <<>>

\* A text of three lines, none blank, one of them a fence, has been split.
C23_Witness ==
    /\ pc = "split"
    /\ Len(SplitLines(text)) = 3
    /\ \A k \in 1..3 : SplitLines(text)[k] # <<>>
    /\ \E k \in 1..3 : SplitLines(text)[k] = Fence
    /\ blocks[1] = <<text>>

\* ------------------------------------------------------------------- C24
\* C24 as stated: for every deck, the empty one included, the render shows the
\* session as Complete exactly when the position has reached the deck length.
C24_CompleteEveryDeck == view.done <=> index >= Len(cards)

\* C24 amended: the render shows the session as Complete exactly when the deck
\* is not empty and the position has reached its length; with an empty deck
\* the session is never Complete and there is no current card.
C24_CompleteNonEmptyDeck ==
    /\ view.done <=> (cards # <<>> /\ index >= Len(cards))
    /\ cards = <<>> => (~view.done /\ view.card = None)
    /\ view.done => view.card = None

\* A filter that matches no card has been chosen: the deck is empty, the
\* position has reached its length and the session is not Complete.
C24_Witness ==
    /\ mounted
    /\ lastEvent.op = "filter"
    /\ cards = <<>>
    /\ index >= Len(cards)
    /\ ~view.done

\* ------------------------------------------------------------------- C25
\* The step selects a choice for the current card, and nothing else.
SelectTransition ==
    /\ selected = None
    /\ selected' # None
    /\ answered' = answered + 1
    /\ UNCHANGED <<filter, cards, index>>

\* The step advances to the next card, and nothing else.
AdvanceTransition ==
    /\ selected # None
    /\ selected' = None
    /\ index' = index + 1
    /\ UNCHANGED <<filter, cards, score, answered, categoryScores>>

\* C25: a key press causes at most one transition: it leaves the session
\* unchanged, or selects (keys 1-4, no choice selected), or advances (Enter or
\* ArrowRight, a choice selected), never both; it changes nothing in Complete
\* or when the event target is an input or textarea.
C25_OneTransitionPerKey ==
    [][ lastEvent'.op = "key" =>
          /\ \/ UNCHANGED quizState
             \/ /\ SelectTransition
                /\ lastEvent'.key \in {"1", "2", "3", "4"}
             \/ /\ AdvanceTransition
                /\ lastEvent'.key \in {"Enter", "ArrowRight"}
          /\ ~(SelectTransition /\ AdvanceTransition)
          /\ (lastEvent'.key \in {"1", "2", "3", "4"} /\ selected # None)
                => UNCHANGED quizState
          /\ (lastEvent'.key \in {"Enter", "ArrowRight"} /\ selected = None)
                => UNCHANGED quizState
          /\ (done \/ lastEvent'.input) => UNCHANGED quizState
      ]_vars

\* The Enter key has advanced the session past its last card.
C25_Witness ==
    /\ lastEvent.op = "key"
    /\ lastEvent.key = "Enter"
    /\ ~lastEvent.input
    /\ done
    /\ selected = None

\* ------------------------------------------------------------------- C26
\* C26: a step that is not a reset (mount, filter change, restart) decreases
\* neither the position index nor the answered count.
C26_Monotonic ==
    [][ ~ResetEvent(lastEvent') => (index' >= index /\ answered' >= answered) ]_vars

\* Two cards have been answered and passed since the last reset.
C26_Witness ==
    /\ lastEvent.op = "next"
    /\ index = 2
    /\ answered = 2

\* ------------------------------------------------------- shuffle, step by step
\* The quiz page before its mount effect has run, and no theory text.
QuizUnmounted ==
    /\ filter = "all"
    /\ cards = <<>>
    /\ index = 0
    /\ selected = None
    /\ score = 0
    /\ answered = 0
    /\ categoryScores = ZeroScores
    /\ view = Capture("all", <<>>, 0, None)
    /\ mounted = FALSE
    /\ pending = 0
    /\ lastEvent = Event("init", "-", FALSE, 0)

TheoryIdle ==
    /\ text = <<>>
    /\ blocks = None
    /\ pc = "idle"
    /\ parsed = None
    /\ tables = None
    /\ html = <<>>

\* Length of the arrays handed to shuffle, and number of distinct elements.
MaxShuffleLen == 3

ShuffleInputs == UNION {[1..n -> 1..MaxShuffleLen] : n \in 0..MaxShuffleLen}

\* const a = [...arr] makes a new array: writes to a do not reach arr.
SpreadAliases == FALSE

SpreadCopies == TRUE

InitShuffle ==
    /\ QuizUnmounted
    /\ TheoryIdle
    /\ VizAbsent
    /\ CodeBlockAbsent
    /\ shuffleIn \in ShuffleInputs
    /\ shuffleArr = shuffleIn
    /\ shuffleA = None
    /\ shuffleI = 0
    /\ shuffleJs = <<>>
    /\ shufflePc = "call"

\* const a = [...arr]; let i = a.length - 1
ShuffleCopy ==
    /\ shufflePc = "call"
    /\ shuffleA' = Some(shuffleArr)
    /\ shuffleI' = Len(shuffleArr) - 1
    /\ shufflePc' = "loop"
    /\ UNCHANGED <<shuffleIn, shuffleArr, shuffleJs>>
    /\ UNCHANGED <<quizState, view, mounted, pending, lastEvent, theoryVars,
                   vizVars, codeBlockVars>>

\* One round of the loop: draw j in 0..i, swap a[i] and a[j], i--.
ShuffleSwap ==
    /\ shufflePc = "loop"
    /\ shuffleI > 0
    /\ \E j \in 0..shuffleI :
          LET swapped == Swap(shuffleA[1], shuffleI + 1, j + 1)
          IN  /\ shuffleA' = Some(swapped)
              /\ shuffleArr' = IF SpreadCopies THEN shuffleArr ELSE swapped
              /\ shuffleJs' = Append(shuffleJs, j)
    /\ shuffleI' = shuffleI - 1
    /\ UNCHANGED <<shuffleIn, shufflePc>>
    /\ UNCHANGED <<quizState, view, mounted, pending, lastEvent, theoryVars,
                   vizVars, codeBlockVars>>

\* return a
ShuffleReturn ==
    /\ shufflePc = "loop"
    /\ shuffleI <= 0
    /\ shufflePc' = "returned"
    /\ UNCHANGED <<shuffleIn, shuffleArr, shuffleA, shuffleI, shuffleJs>>
    /\ UNCHANGED <<quizState, view, mounted, pending, lastEvent, theoryVars,
                   vizVars, codeBlockVars>>

NextShuffle ==
    \/ ShuffleCopy
    \/ ShuffleSwap
    \/ ShuffleReturn

ShuffleSpec == InitShuffle /\ [][NextShuffle]_vars

\* ------------------------------------------------------------------- C27
RECURSIVE Factorial(_)
Factorial(n) == IF n <= 1 THEN 1 ELSE n * Factorial(n - 1)

\* How often v occurs in s.
Occurrences(s, v) == Cardinality({k \in 1..Len(s) : s[k] = v})

SameMultiset(s, t) ==
    /\ Len(s) = Len(t)
    /\ \A k \in 1..Len(s) : Occurrences(s, s[k]) = Occurrences(t, s[k])

\* The draws made by the loop as the function from position to draw that
\* shuffle takes (positions and draws 1-based).
DrawsMade(n, js) == [p \in 2..n |-> js[n - p + 1] + 1]

\* All arrangements of the elements of s.
Arrangements(s) == {t \in [1..Len(s) -> {s[k] : k \in 1..Len(s)}] : SameMultiset(s, t)}

Distinct(s) == \A k, m \in 1..Len(s) : s[k] = s[m] => k = m

\* C27: shuffle returns an array with the length and the multiset of elements
\* of its input and leaves the input as it was; the result is the one the
\* draws determine; for n distinct elements the n! draw sequences give n!
\* distinct results, which are all the permutations of the input.
C27_FisherYates ==
    shufflePc = "returned" =>
        LET n == Len(shuffleIn)
            results == {shuffle(shuffleIn, d) : d \in Draws(n)}
        IN  /\ Len(shuffleA[1]) = n
            /\ SameMultiset(shuffleA[1], shuffleIn)
            /\ shuffleArr = shuffleIn
            /\ Len(shuffleJs) = (IF n = 0 THEN 0 ELSE n - 1)
            /\ shuffleA[1] = shuffle(shuffleIn, DrawsMade(n, shuffleJs))
            /\ Distinct(shuffleIn) =>
                  /\ Cardinality(Draws(n)) = Factorial(n)
                  /\ Cardinality(results) = Factorial(n)
                  /\ results = Arrangements(shuffleIn)

\* Three distinct elements have been shuffled into an order in which none is
\* at its old place.
C27_Witness ==
    /\ shufflePc = "returned"
    /\ shuffleIn = <<1, 2, 3>>
    /\ \A k \in 1..3 : shuffleA[1][k] # shuffleIn[k]

\* ------------------------------------------------------------------- C29
\* C29: answered is the position plus one if a choice is selected, so every
\* card before the position was answered once and none was skipped; in
\* Complete answered is the deck length and nothing is selected, and neither a
\* select-choice nor an advance event changes the session.
C29_Progress ==
    /\ [](answered = index + (IF selected # None THEN 1 ELSE 0))
    /\ [](done => (answered = Len(cards) /\ selected = None))
    /\ [][ (done /\ (SelectEvent(lastEvent') \/ AdvanceEvent(lastEvent')))
              => UNCHANGED quizState ]_vars

\* A digit key has been pressed in Complete.
C29_Witness ==
    /\ done
    /\ lastEvent.op = "key"
    /\ lastEvent.key = "1"
    /\ ~lastEvent.input
    /\ answered = Len(cards)
    /\ Len(cards) >= 2

\* ------------------------------------------------------ visualization timers
VizKinds == {"GraphViz", "ArrayViz", "StackQueueViz"}

\* bfsOrder.length, values.length, and the divisor of the phase counter
BfsOrderLength == 6
ValuesLength == 8
PhasePeriod == 6

\* The values Math.floor(Math.random() * 9) + 1 is drawn from in the model:
\* the least and the greatest.
RandomItems == {1, 9}

\* The interval timers the effects of a component set, named after the state
\* they drive.
TimersOf(kind) ==
    CASE kind = "GraphViz" -> {"step"}
      [] kind = "ArrayViz" -> {"activeIndex", "pointers"}
      [] kind = "StackQueueViz" -> {"phase"}

\* The useState initial values.
InitialVizState(kind) ==
    CASE kind = "GraphViz" -> [step |-> 0]
      [] kind = "ArrayViz" ->
            [activeIndex |-> -1, pointerLeft |-> 0, pointerRight |-> ValuesLength - 1]
      [] kind = "StackQueueViz" ->
            [phase |-> 0, stackItems |-> <<4, 7, 2, 9>>, queueItems |-> <<3, 1, 8, 5>>]

\* Cleanups that clear only the first interval of a component.
ClearedOnUnmountFirstOnly(kind) ==
    IF kind = "ArrayViz" THEN {"activeIndex"} ELSE TimersOf(kind)

\* The timers the effect cleanups clear: each effect clears its own interval.
ClearedOnUnmount(kind) == TimersOf(kind)

\* The state after the callback of timer t, r being the random item it draws.
AfterTick(kind, t, st, r) ==
    CASE kind = "GraphViz" ->
            [st EXCEPT !.step = (@ + 1) % (BfsOrderLength + 2)]
      [] kind = "ArrayViz" /\ t = "activeIndex" ->
            [st EXCEPT !.activeIndex = (@ + 1) % ValuesLength]
      [] kind = "ArrayViz" /\ t = "pointers" ->
            [st EXCEPT !.pointerLeft =
                           IF @ >= (ValuesLength \div 2) - 1 THEN 0 ELSE @ + 1,
                       !.pointerRight =
                           IF @ <= (ValuesLength + 1) \div 2 THEN ValuesLength - 1 ELSE @ - 1]
      [] kind = "StackQueueViz" ->
            LET next == (st.phase + 1) % PhasePeriod
            IN  [phase |-> next,
                 stackItems |->
                     IF next = 1 THEN Append(st.stackItems, r)
                     ELSE IF next = 3 /\ Len(st.stackItems) > 1
                     THEN SubSeq(st.stackItems, 1, Len(st.stackItems) - 1)
                     ELSE st.stackItems,
                 queueItems |->
                     IF next = 2 THEN Append(st.queueItems, r)
                     ELSE IF next = 4 /\ Len(st.queueItems) > 1
                     THEN Tail(st.queueItems)
                     ELSE st.queueItems]

InitViz ==
    /\ QuizUnmounted
    /\ TheoryIdle
    /\ ShuffleIdle
    /\ CodeBlockAbsent
    /\ VizAbsent

\* The component mounts: useState initial values, then the effects set their
\* intervals.
VizMount(kind) ==
    /\ vizPhase = "absent"
    /\ vizKind' = kind
    /\ vizPhase' = "mounted"
    /\ vizState' = InitialVizState(kind)
    /\ vizTimers' = TimersOf(kind)
    /\ UNCHANGED <<quizState, view, mounted, pending, lastEvent, theoryVars,
                   shuffleVars, codeBlockVars>>

\* The callback of a timer that is set runs; React drops the update of a
\* component that is no longer mounted.
VizTick(t) ==
    /\ t \in vizTimers
    /\ \E r \in RandomItems :
          vizState' = IF vizPhase = "mounted"
                      THEN AfterTick(vizKind, t, vizState, r)
                      ELSE vizState
    /\ UNCHANGED <<vizKind, vizPhase, vizTimers>>
    /\ UNCHANGED <<quizState, view, mounted, pending, lastEvent, theoryVars,
                   shuffleVars, codeBlockVars>>

\* The component unmounts: the effect cleanups run.
VizUnmount ==
    /\ vizPhase = "mounted"
    /\ vizPhase' = "unmounted"
    /\ vizTimers' = vizTimers \ ClearedOnUnmount(vizKind)
    /\ UNCHANGED <<vizKind, vizState>>
    /\ UNCHANGED <<quizState, view, mounted, pending, lastEvent, theoryVars,
                   shuffleVars, codeBlockVars>>

NextViz ==
    \/ \E kind \in VizKinds : VizMount(kind)
    \/ \E t \in {"step", "activeIndex", "pointers", "phase"} : VizTick(t)
    \/ VizUnmount

VizSpec == InitViz /\ [][NextViz]_vars

\* ------------------------------------------------------------------- C28
\* The frame counter of an instance and the length of its cycle.
FrameCounter(kind, st) ==
    CASE kind = "GraphViz" -> st.step
      [] kind = "ArrayViz" -> st.activeIndex
      [] kind = "StackQueueViz" -> st.phase

FramePeriod(kind) ==
    CASE kind = "GraphViz" -> BfsOrderLength + 2
      [] kind = "ArrayViz" -> ValuesLength
      [] kind = "StackQueueViz" -> PhasePeriod

\* The timers of a mounted instance are set and those of an unmounted one are
\* all cleared; after teardown its state does not change; a change of the
\* frame counter is a step to the next frame of the cycle and changes nothing
\* outside the instance.
TimersScoped ==
    /\ [](vizPhase = "mounted" => vizTimers = TimersOf(vizKind))
    /\ [](vizPhase = "unmounted" => vizTimers = {})
    /\ [][vizPhase = "unmounted" => UNCHANGED vizState]_vars
    /\ [][ (vizPhase = "mounted" /\ vizState' # vizState) =>
              /\ FrameCounter(vizKind, vizState') \in
                    {FrameCounter(vizKind, vizState),
                     (FrameCounter(vizKind, vizState) + 1) % FramePeriod(vizKind)}
              /\ UNCHANGED <<quizState, view, mounted, pending, lastEvent,
                             theoryVars, shuffleVars, codeBlockVars>>
          ]_vars

MaxRequests == 3

\* The props of a code block: the code text and the language, which
\* defaults to 'typescript'.
CodeTexts == {<<"x">>, <<" ", "x">>, <<"y">>}
Langs == {"typescript", "python"}
CodeBlockProps == [code : CodeTexts, lang : Langs]

\* codeToHtml(code.trim(), { lang, theme }): the markup of the trimmed code
\* in the given language.
codeToHtml(props) == <<[pre |-> Trim(props.code), lang |-> props.lang]>>

\* The body of the effect: a fresh cancelled flag and a request in flight.
StartRequest(props) == [props |-> props, cancelled |-> FALSE, settled |-> FALSE]

cleanupKeepsFlag(reqs) == reqs

\* The cleanup of the most recent effect: cancelled = true in its closure.
cleanup(reqs) == [reqs EXCEPT ![Len(reqs)].cancelled = TRUE]

InitCodeBlock ==
    /\ QuizUnmounted
    /\ TheoryIdle
    /\ ShuffleIdle
    /\ VizAbsent
    /\ CodeBlockAbsent

\* First render: html is '' and the effect starts the highlight request.
CodeBlockMount(props) ==
    /\ cbPhase = "absent"
    /\ cbPhase' = "mounted"
    /\ cbProps' = props
    /\ cbRequests' = <<StartRequest(props)>>
    /\ codeHtml' = <<>>
    /\ UNCHANGED <<quizState, view, mounted, pending, lastEvent, theoryVars,
                   shuffleVars, vizVars>>

\* A render with another code or lang: the previous effect is cleaned up and
\* the effect runs again.
CodeBlockPropsChange(props) ==
    /\ cbPhase = "mounted"
    /\ props # cbProps
    /\ Len(cbRequests) < MaxRequests
    /\ cbProps' = props
    /\ cbRequests' = Append(cleanup(cbRequests), StartRequest(props))
    /\ UNCHANGED <<cbPhase, codeHtml>>
    /\ UNCHANGED <<quizState, view, mounted, pending, lastEvent, theoryVars,
                   shuffleVars, vizVars>>

\* The promise of request k is fulfilled, in any order with the others and
\* also after the unmount: if (!cancelled) setHtml(result).
CodeBlockResolve(k) ==
    /\ k \in 1..Len(cbRequests)
    /\ ~cbRequests[k].settled
    /\ cbRequests' = [cbRequests EXCEPT ![k].settled = TRUE]
    /\ codeHtml' = IF cbRequests[k].cancelled
                   THEN codeHtml
                   ELSE codeToHtml(cbRequests[k].props)
    /\ UNCHANGED <<cbPhase, cbProps>>
    /\ UNCHANGED <<quizState, view, mounted, pending, lastEvent, theoryVars,
                   shuffleVars, vizVars>>

\* The component unmounts: the last effect is cleaned up.
CodeBlockUnmount ==
    /\ cbPhase = "mounted"
    /\ cbPhase' = "unmounted"
    /\ cbRequests' = cleanup(cbRequests)
    /\ UNCHANGED <<cbProps, codeHtml>>
    /\ UNCHANGED <<quizState, view, mounted, pending, lastEvent, theoryVars,
                   shuffleVars, vizVars>>

NextCodeBlock ==
    \/ \E props \in CodeBlockProps : CodeBlockMount(props)
    \/ \E props \in CodeBlockProps : CodeBlockPropsChange(props)
    \/ \E k \in 1..MaxRequests : CodeBlockResolve(k)
    \/ CodeBlockUnmount

CodeBlockSpec == InitCodeBlock /\ [][NextCodeBlock]_vars

\* ------------------------------------------------------------------- C30
\* Request k completes in this step.
Settles(k) ==
    /\ k \in 1..Len(cbRequests)
    /\ Len(cbRequests') = Len(cbRequests)
    /\ ~cbRequests[k].settled
    /\ cbRequests'[k].settled

\* C30: the result of a superseded highlight request, or of one that
\* completes after the unmount, is never written to html; html changes only
\* when the request started by the most recent effect of a mounted component
\* completes, and then to that request's result, whatever the completion order.
C30_StaleResultDiscarded ==
    /\ [][ \A k \in 1..MaxRequests :
              (Settles(k) /\ (k < Len(cbRequests) \/ cbPhase # "mounted"))
                  => codeHtml' = codeHtml ]_vars
    /\ [][ (cbPhase # "absent" /\ codeHtml' # codeHtml) =>
              /\ cbPhase = "mounted"
              /\ Settles(Len(cbRequests))
              /\ cbRequests[Len(cbRequests)].props = cbProps
              /\ codeHtml' = codeToHtml(cbProps) ]_vars

\* The first request completed after it was superseded by a request for
\* other markup that is still in flight, and html is still ''.
C30_Witness ==
    /\ cbPhase = "mounted"
    /\ Len(cbRequests) >= 2
    /\ cbRequests[1].settled
    /\ cbRequests[1].cancelled
    /\ ~cbRequests[Len(cbRequests)].settled
    /\ codeToHtml(cbRequests[1].props) # codeToHtml(cbProps)
    /\ codeHtml = <<>>
====
